---- MODULE Spec2Model ----
(***************************************************************************)
(* FLASHDeconv (TOPP tool): the run of TOPPFLASHDeconv::main_ over one     *)
(* input map, with the buffer of last deconvolved spectra, the per-level   *)
(* counters, the list of deconvolved spectra and the mass tracer.          *)
(***************************************************************************)
EXTENDS Integers, Sequences, FiniteSets, TLC

\* ---------------------------------------------------------------- bounds
MaxSpectra == 2     \* spectra in the input map
MaxK == 2           \* largest preceding_MS1_count tried
MaxMass == 1        \* monoisotopic masses a deconvolution can report: 1..MaxMass

\* ------------------------------------------------------ program constants
DefaultMaxMSLevel == 3      \* registerIntOption_("max_MS_level", ..., 3, ...)
FLASHIdaSurveyScans == 50   \* num_last_deconvolved_spectra with a FLASHIda log
MinPrecedingMS1Count == 1   \* setMinInt_("preceding_MS1_count", 1)

Levels == 1..DefaultMaxMSLevel
Masses == 1..MaxMass

VARIABLES
  cfg,                       \* the options read at the top of main_
  map,                       \* MSExperiment map: the input spectra
  pc,                        \* position of main_
  it,                        \* the main loop's iterator (1-based index into map)
  current_max_ms_level,
  spec_cntr, qspec_cntr, mass_cntr,
  last_deconvolved_spectra,  \* unordered_map<UInt, vector<DeconvolvedSpectrum>>
  deconvolved_spectra,
  decoy_deconvolved_spectra,
  mass_tracer,               \* spectra stored by storeInformationFromDeconvolvedSpectrum
  avg,                       \* the Averagine table: its grid masses
  exit_code,
  hist,                      \* history of the calls made (observation only)
  averagine,                 \* a PrecalculatedAveragine under construction and query
  tmpl,                      \* one template of the table: the isotope distribution and its trimming
  peak,                      \* a LogMzPeak
  tracer,                    \* a run of MassFeatureTrace::findFeatures
  detection,                 \* the mass trace detection as findFeatures parameterises it
  filter,                    \* a map handed to filterLowPeaks
  stack,                     \* a LayerStack
  zoom                       \* the zoom stack of a PlotCanvas

vars == <<cfg, map, pc, it, current_max_ms_level, spec_cntr, qspec_cntr, mass_cntr,
          last_deconvolved_spectra, deconvolved_spectra, decoy_deconvolved_spectra,
          mass_tracer, avg, exit_code, hist>>

\* the state of the components exercised on their own
moreVars == <<detection, filter, stack, zoom>>

unitVars == <<averagine, tmpl, peak, tracer, moreVars>>

allVars == <<vars, unitVars>>

\* a component that is not exercised
Unused == [pc |-> "unused"]
MoreUnused == detection = Unused /\ filter = Unused /\ stack = Unused /\ zoom = Unused

UnitsUnused ==
  averagine = Unused /\ tmpl = Unused /\ peak = Unused /\ tracer = Unused /\ MoreUnused

\* ------------------------------------------------------------- helpers
Max(a, b) == IF a > b THEN a ELSE b
Min(a, b) == IF a < b THEN a ELSE b

\* the last n elements of s
LastN(s, n) == SubSeq(s, Len(s) - n + 1, Len(s))

\* MSSpectrum::empty(): the spectrum holds no peak
SpectrumEmpty(s) == s.size = 0

\* ------------------------------------------------------------- inputs
\* A spectrum of the input: its MS level, retention time, number of peaks, and
\* whether it carries precursor information (getPrecursors() is non-empty).
SpectrumOptions(rts) ==
  [ms_level : Levels, rt : rts, size : {0, 1}, precursors : {TRUE}]
    \cup [ms_level : {2}, rt : rts, size : {1}, precursors : {FALSE}]

\* input runs written in acquisition order: the i-th spectrum has RT i
MapsInOrder ==
  UNION {{m \in [1..n -> SpectrumOptions(1..MaxSpectra)] : \A i \in 1..n : m[i].rt = i}
         : n \in 0..MaxSpectra}

\* input runs of MS1 and MS2 spectra with arbitrary retention times
MapsAnyRT ==
  UNION {{m \in [1..n -> SpectrumOptions(1..MaxSpectra)] : \A i \in 1..n : m[i].ms_level <= 2}
         : n \in 0..MaxSpectra}

\* longer input runs in acquisition order, every spectrum with peaks and precursor
MapsOfFullSpectra ==
  UNION {{m \in [1..n -> SpectrumOptions(1..(MaxSpectra + 2))] :
            \A i \in 1..n : m[i].rt = i /\ m[i].size = 1 /\ m[i].precursors}
         : n \in 0..(MaxSpectra + 2)}

\* the options main_ reads (getIntOption_, getStringList_, fd_param)
Options(levels, counts, merges, decoys, details, outs, ranges) ==
  [max_ms_level : levels, forced_ms_level : {0}, preceding_MS1_count : counts,
   in_log_file : {FALSE}, merge : merges, report_decoy : decoys, write_detail : details,
   out_spec : outs, mass_range : ranges]

\* ------------------------------------ PrecalculatedAveragine (grid only)
\* The constructor's loop: every multiple of delta in [min_mass, max_mass].
RECURSIVE GridFrom(_, _, _, _)
GridFrom(i, min_mass, max_mass, delta) ==
  IF i * delta > max_mass THEN <<>>
  ELSE IF i * delta < min_mass THEN GridFrom(i + 1, min_mass, max_mass, delta)
  ELSE <<i * delta>> \o GridFrom(i + 1, min_mass, max_mass, delta)

PrecalculatedAveragine(min_mass, max_mass, delta) == GridFrom(0, min_mass, max_mass, delta)

\* fd.setParameters(fd_param); fd.calculateAveragine(...): the table for the
\* configured mass range, on a grid of step one
calculateAveragine(c) == PrecalculatedAveragine(c.mass_range[1], c.mass_range[2], 1)

\* ---------------------------------------------------- first pass, merging
\* forced_ms_level > 0 sets the MS level of every spectrum
ForceMSLevel(m, forced) ==
  IF forced > 0 THEN [i \in DOMAIN m |-> [m[i] EXCEPT !.ms_level = forced]] ELSE m

\* the spectra the first pass counts: not empty, MS level within max_ms_level
Counted(m, max_ms_level) ==
  {i \in DOMAIN m : ~SpectrumEmpty(m[i]) /\ m[i].ms_level <= max_ms_level}

RECURSIVE SetMax(_)
SetMax(S) == IF S = {} THEN 0 ELSE LET x == CHOOSE x \in S : TRUE IN Max(x, SetMax(S \ {x}))

\* current_max_ms_level after the first pass, capped by max_ms_level
CurrentMaxMSLevel(m, max_ms_level) ==
  Min(SetMax({m[i].ms_level : i \in Counted(m, max_ms_level)}), max_ms_level)

\* it.getPrecursors()[0] is read for every counted MS2 spectrum: with no
\* precursor the read is out of bounds
ReadsMissingPrecursor(m, max_ms_level) ==
  \E i \in Counted(m, max_ms_level) : m[i].ms_level = 2 /\ ~m[i].precursors

\* filterLowPeaks(map, count): no spectrum keeps more than count peaks
max_peak_count_ == 30000
filterLowPeaks(m, count) ==
  [i \in DOMAIN m |-> IF m[i].size <= count THEN m[i] ELSE [m[i] EXCEPT !.size = count]]

\* map.sortSpectra(): any order of the spectra that is sorted by retention time
IsSortedByRT(m) == \A i, j \in DOMAIN m : i < j => m[i].rt <= m[j].rt
Orderings(m) ==
  {[i \in DOMAIN m |-> m[p[i]]] :
     p \in {q \in [DOMAIN m -> DOMAIN m] : \A a, b \in DOMAIN m : a # b => q[a] # q[b]}}
sortSpectra(m) == {s \in Orderings(m) : IsSortedByRT(s)}

\* merger.mergeSpectraBlockWise with one block per run: the spectra of MS level
\* ml become a single spectrum
MergedSpectrum(m, ml) ==
  LET idx == {i \in DOMAIN m : m[i].ms_level = ml}
      first == CHOOSE i \in idx : \A j \in idx : i <= j
  IN [ms_level |-> ml, rt |-> m[first].rt,
      size |-> SetMax({m[i].size : i \in idx}), precursors |-> m[first].precursors]
mergeSpectraBlockWise(m, ml) ==
  IF \A i \in DOMAIN m : m[i].ms_level # ml THEN m
  ELSE SelectSeq(m, LAMBDA s : s.ms_level # ml) \o <<MergedSpectrum(m, ml)>>

RECURSIVE MergeLevels(_, _, _)
MergeLevels(m, ml, top) ==
  IF ml > top THEN m ELSE MergeLevels(mergeSpectraBlockWise(m, ml), ml + 1, top)

\* merging_method: 0 none, 1 gaussian averaging (peaks only), 2 one spectrum per level
Merged(m, merge, top) ==
  IF merge = 0 THEN {m}
  ELSE IF merge = 1 THEN sortSpectra(m)
  ELSE {MergeLevels(s, 1, top) : s \in sortSpectra(m)}

\* ------------------------------------------------------- the main loop
\* int num_last_deconvolved_spectra
num_last_deconvolved_spectra(c) ==
  IF c.in_log_file THEN FLASHIdaSurveyScans ELSE c.preceding_MS1_count

\* the loop ending one spectrum early
LoopDoneEarly(i, m) == i >= Len(m)

\* the loop over map has reached map.end()
LoopDone(i, m) == i > Len(m)

\* the skip without its test for an empty spectrum
SkippedByLevelOnly(s, cur_max) == s.ms_level > cur_max

\* the spectra the main loop skips before counting them
Skipped(s, cur_max) == SpectrumEmpty(s) \/ s.ms_level > cur_max

\* a result taken as never empty
ResultNeverEmpty(masses) == FALSE

\* if (deconvolved_spectrum.empty()) continue;
ResultEmpty(masses) == masses = {}

\* operator[] of the unordered_map: an absent key is inserted with an empty vector
Subscript(buf, k) == IF k \in DOMAIN buf THEN buf ELSE buf @@ (k :> <<>>)

\* erase(iterator) of the unordered_map: the whole entry of one key goes
Erase(buf, k) == [x \in DOMAIN buf \ {k} |-> buf[x]]

\* precursor_specs handed to performSpectrumDeconvolution
PrecursorSpecs(buf, ms_level) ==
  IF ms_level > 1 /\ (ms_level - 1) \in DOMAIN buf THEN buf[ms_level - 1] ELSE <<>>

\* the result object of fd.performSpectrumDeconvolution for the spectrum at position scan
DeconvolvedSpectrum(scan, s, masses) ==
  [scan |-> scan, ms_level |-> s.ms_level, rt |-> s.rt, masses |-> masses,
   peaks |-> TRUE, score |-> 1, qvalue |-> 0]

\* the update of last_deconvolved_spectra; begin_key is the key that begin() of the
\* unordered_map designates
UpdateLast(buf, ms_level, ds, k, begin_key) ==
  LET b1 == Subscript(buf, ms_level)
      b2 == IF Len(b1[ms_level]) >= k THEN Erase(b1, begin_key) ELSE b1
      b3 == Subscript(b2, ms_level)
  IN [b3 EXCEPT ![ms_level] = Append(@, ds)]

\* the clearing loop run over the target spectrum instead of the decoy spectrum
ClearTargetForReport(ds, decoy, write_detail) ==
  IF write_detail THEN <<ds, decoy>> ELSE <<[ds EXCEPT !.peaks = FALSE], decoy>>

\* pg.clear() for every PeakGroup of the decoy spectrum unless write_detail;
\* the pair <<deconvolved_spectrum, decoy_deconvolved_spectrum>> afterwards
ClearForReport(ds, decoy, write_detail) ==
  IF write_detail THEN <<ds, decoy>> ELSE <<ds, [decoy EXCEPT !.peaks = FALSE]>>

\* DeconvolvedSpectrum::updatePeakGroupQvalues: the q-value of every PeakGroup is set
updatePeakGroupQvalues(specs) == [i \in DOMAIN specs |-> [specs[i] EXCEPT !.qvalue = 1]]

\* the spectra the writing loop hands to the tracer
StoredInTracer(specs, out_spec) == SelectSeq(specs, LAMBDA ds : out_spec > ds.ms_level - 1)

Zeros(n) == [l \in 1..n |-> 0]

InitWith(maps, options) ==
  /\ cfg \in options
  /\ map \in maps
  /\ pc = "start"
  /\ it = 1
  /\ current_max_ms_level = 0
  /\ spec_cntr = Zeros(cfg.max_ms_level)
  /\ qspec_cntr = Zeros(cfg.max_ms_level)
  /\ mass_cntr = Zeros(cfg.max_ms_level)
  /\ last_deconvolved_spectra = <<>>
  /\ deconvolved_spectra = <<>>
  /\ decoy_deconvolved_spectra = <<>>
  /\ mass_tracer = <<>>
  /\ avg = <<>>
  /\ exit_code = "none"
  /\ hist = [deconv |-> <<>>, published |-> [l \in Levels |-> <<>>], first_pub |-> <<>>,
             find_features |-> 0, avg_queries |-> 0]

\* main_ up to the main loop: the first pass over the input, merging, the Averagine table
Prepare ==
  /\ pc = "start"
  /\ UNCHANGED unitVars
  /\ LET m1 == ForceMSLevel(map, cfg.forced_ms_level)
         cur == CurrentMaxMSLevel(m1, cfg.max_ms_level)
     IN \/ /\ ReadsMissingPrecursor(m1, cfg.max_ms_level)
           /\ pc' = "crashed"
           /\ map' = m1
           /\ UNCHANGED <<it, current_max_ms_level, avg>>
        \/ /\ \E m3 \in Merged(filterLowPeaks(m1, max_peak_count_), cfg.merge, cur) :
                map' = filterLowPeaks(m3, max_peak_count_)
           /\ current_max_ms_level' = cur
           /\ avg' = calculateAveragine(cfg)
           /\ it' = 1
           /\ pc' = "loop"
  /\ UNCHANGED <<cfg, spec_cntr, qspec_cntr, mass_cntr, last_deconvolved_spectra,
                 deconvolved_spectra, decoy_deconvolved_spectra, mass_tracer, exit_code, hist>>

\* one iteration of the main loop that ends at one of its first two continue statements
SkipSpectrum ==
  /\ pc = "loop" /\ ~LoopDone(it, map)
  /\ UNCHANGED unitVars
  /\ Skipped(map[it], current_max_ms_level)
  /\ it' = it + 1
  /\ UNCHANGED <<cfg, map, pc, current_max_ms_level, spec_cntr, qspec_cntr, mass_cntr,
                 last_deconvolved_spectra, deconvolved_spectra, decoy_deconvolved_spectra,
                 mass_tracer, avg, exit_code, hist>>

\* one iteration of the main loop that reaches performSpectrumDeconvolution
DeconvolveSpectrum ==
  /\ pc = "loop" /\ ~LoopDone(it, map)
  /\ UNCHANGED unitVars
  /\ ~Skipped(map[it], current_max_ms_level)
  /\ \E masses \in SUBSET Masses :
       LET s == map[it]
           ms_level == s.ms_level
           ds == DeconvolvedSpectrum(it, s, masses)
           call == [scan |-> it, ms_level |-> ms_level, rt |-> s.rt,
                    precursor_specs |-> PrecursorSpecs(last_deconvolved_spectra, ms_level)]
           publish == ms_level < current_max_ms_level
       IN /\ spec_cntr' = [spec_cntr EXCEPT ![ms_level] = @ + 1]
          /\ IF ResultEmpty(masses)
             THEN /\ it' = it + 1
                  /\ hist' = [hist EXCEPT !.deconv = Append(@, call)]
                  /\ UNCHANGED <<pc, qspec_cntr, mass_cntr, last_deconvolved_spectra,
                                 deconvolved_spectra, decoy_deconvolved_spectra>>
             ELSE /\ IF publish
                     THEN \E begin_key \in DOMAIN Subscript(last_deconvolved_spectra, ms_level) :
                            last_deconvolved_spectra' =
                              UpdateLast(last_deconvolved_spectra, ms_level, ds,
                                         num_last_deconvolved_spectra(cfg), begin_key)
                     ELSE UNCHANGED last_deconvolved_spectra
                  /\ \/ \* avg.getLastIndex on an empty table reads out of bounds
                        /\ cfg.report_decoy /\ avg = <<>>
                        /\ pc' = "crashed"
                        /\ hist' = [hist EXCEPT
                                      !.deconv = Append(@, call),
                                      !.published[ms_level] = IF publish THEN Append(@, ds) ELSE @,
                                      !.first_pub = IF publish THEN @ @@ (it :> ds) ELSE @,
                                      !.avg_queries = @ + 1]
                        /\ UNCHANGED <<it, qspec_cntr, mass_cntr, deconvolved_spectra,
                                       decoy_deconvolved_spectra>>
                     \/ \E decoy_masses \in (IF cfg.report_decoy THEN SUBSET Masses ELSE {{}}) :
                          LET decoy == [scan |-> it, ms_level |-> ms_level, rt |-> s.rt,
                                        masses |-> decoy_masses, peaks |-> TRUE,
                                        score |-> 1, qvalue |-> 0]
                              out == ClearForReport(ds, decoy, cfg.write_detail)
                          IN /\ decoy_deconvolved_spectra' =
                                  IF cfg.report_decoy
                                  THEN Append(decoy_deconvolved_spectra, out[2])
                                  ELSE decoy_deconvolved_spectra
                             /\ qspec_cntr' = [qspec_cntr EXCEPT ![ms_level] = @ + 1]
                             /\ mass_cntr' = [mass_cntr EXCEPT ![ms_level] = @ + Cardinality(out[1].masses)]
                             /\ deconvolved_spectra' = Append(deconvolved_spectra, out[1])
                             /\ hist' = [hist EXCEPT
                                           !.deconv = Append(@, call),
                                           !.published[ms_level] = IF publish THEN Append(@, ds) ELSE @,
                                           !.first_pub = IF publish THEN @ @@ (it :> ds)
                                                         ELSE @ @@ (it :> out[1]),
                                           !.avg_queries = IF cfg.report_decoy
                                                           THEN @ + Cardinality(masses) ELSE @]
                             /\ it' = it + 1
                             /\ pc' = pc
  /\ UNCHANGED <<cfg, map, current_max_ms_level, mass_tracer, avg, exit_code>>

\* after the loop: the q-value update and the loop that writes the spectra and
\* stores them into the tracer
WriteSpectra ==
  /\ pc = "loop" /\ LoopDone(it, map)
  /\ UNCHANGED unitVars
  /\ deconvolved_spectra' = updatePeakGroupQvalues(deconvolved_spectra)
  /\ mass_tracer' = mass_tracer \o StoredInTracer(deconvolved_spectra', cfg.out_spec)
  /\ pc' = "tracer"
  /\ UNCHANGED <<cfg, map, it, current_max_ms_level, spec_cntr, qspec_cntr, mass_cntr,
                 last_deconvolved_spectra, decoy_deconvolved_spectra, avg, exit_code, hist>>

\* mass_tracer.findFeatures, unless the spectra were merged into a single one
FindFeatures ==
  /\ pc = "tracer"
  /\ UNCHANGED unitVars
  /\ hist' = [hist EXCEPT !.find_features = IF cfg.merge # 2 THEN @ + 1 ELSE @]
  /\ pc' = "return"
  /\ UNCHANGED <<cfg, map, it, current_max_ms_level, spec_cntr, qspec_cntr, mass_cntr,
                 last_deconvolved_spectra, deconvolved_spectra, decoy_deconvolved_spectra,
                 mass_tracer, avg, exit_code>>

\* the summary log and return EXECUTION_OK
Return ==
  /\ pc = "return"
  /\ UNCHANGED unitVars
  /\ exit_code' = "EXECUTION_OK"
  /\ pc' = "done"
  /\ UNCHANGED <<cfg, map, it, current_max_ms_level, spec_cntr, qspec_cntr, mass_cntr,
                 last_deconvolved_spectra, deconvolved_spectra, decoy_deconvolved_spectra,
                 mass_tracer, avg, hist>>

Next == Prepare \/ SkipSpectrum \/ DeconvolveSpectrum \/ WriteSpectra \/ FindFeatures \/ Return

\* Algorithm:min_mass and Algorithm:max_mass: a valid range, and max below min
ValidMassRange == <<1, 2>>
MassRanges == {ValidMassRange, <<2, 1>>}

\* the option sets tried: the options that decide the buffers, the decoy report
\* and the output each vary together, the other options at one value
OptionSets ==
  Options(Levels, MinPrecedingMS1Count..MaxK, 0..2, {FALSE}, {FALSE}, {1}, {ValidMassRange})
    \cup Options({DefaultMaxMSLevel}, {MinPrecedingMS1Count}, {0}, BOOLEAN, BOOLEAN, {1}, MassRanges)
    \cup Options({DefaultMaxMSLevel}, {MinPrecedingMS1Count}, 0..2, {FALSE}, {FALSE},
               0..DefaultMaxMSLevel, {ValidMassRange})

Init == InitWith(MapsInOrder, OptionSets) /\ UnitsUnused

Spec == Init /\ [][Next]_allVars

\* the run over longer inputs, for the buffer of last deconvolved spectra
InitBuffer ==
  InitWith(MapsOfFullSpectra,
           Options({2, 3}, MinPrecedingMS1Count..MaxK, {0}, {FALSE}, {FALSE}, {1},
                   {ValidMassRange}))
  /\ UnitsUnused

SpecBuffer == InitBuffer /\ [][Next]_allVars

\* the run over inputs whose spectra are stored in any retention-time order
InitAnyRT ==
  InitWith(MapsAnyRT,
           Options({2}, {MinPrecedingMS1Count}, 0..2, {FALSE}, {FALSE}, {1}, {ValidMassRange}))
  /\ UnitsUnused

SpecAnyRT == InitAnyRT /\ [][Next]_allVars

\* ------------------------------------------------------------ the claims
\* the vector buffered for MS level l (empty when the map has no such key)
Buffered(l) ==
  IF l \in DOMAIN last_deconvolved_spectra THEN last_deconvolved_spectra[l] ELSE <<>>

\* every DeconvolvedSpectrum held in the buffer or in the list of deconvolved spectra
PublishedEntries ==
  {deconvolved_spectra[i] : i \in DOMAIN deconvolved_spectra}
    \cup UNION {{last_deconvolved_spectra[l][i] : i \in DOMAIN last_deconvolved_spectra[l]}
                : l \in DOMAIN last_deconvolved_spectra}

\* the scans performSpectrumDeconvolution was called for
DeconvolvedScans == {hist.deconv[i].scan : i \in DOMAIN hist.deconv}

\* C1: at every point of the run the buffer of last deconvolved spectra holds at
\* most num_last_deconvolved_spectra entries for each MS level.
C1_BufferAtMostK ==
  \A l \in DOMAIN last_deconvolved_spectra :
    Len(last_deconvolved_spectra[l]) <= num_last_deconvolved_spectra(cfg)

\* C2: whenever a spectrum is about to be processed, the buffer of each MS level
\* below the maximum holds exactly the min(K, n) most recently published spectra of
\* that level, in processing order, and the precursor candidates handed to a
\* spectrum of level n+1 were exactly those of level n at that time.
C2_BufferHoldsLastK ==
  LET k == num_last_deconvolved_spectra(cfg)
      Recent(pubs) == LastN(pubs, Min(k, Len(pubs)))
  IN pc = "loop" =>
       /\ \A l \in 1..(current_max_ms_level - 1) : Buffered(l) = Recent(hist.published[l])
       /\ \A i \in DOMAIN hist.deconv :
            LET call == hist.deconv[i]
            IN call.ms_level > 1 =>
                 call.precursor_specs =
                   Recent(SelectSeq(hist.published[call.ms_level - 1],
                                    LAMBDA ds : ds.scan < call.scan))

\* C3: with a valid configuration, a spectrum that is empty, above the maximum MS
\* level, without precursor information or without deconvolved masses never aborts
\* the run: main_ ends with EXECUTION_OK and every spectrum the loop does not skip
\* has been deconvolved.
C3_MalformedSpectrumNeverAborts ==
  cfg.mass_range = ValidMassRange =>
    /\ pc # "crashed"
    /\ pc = "done" =>
         /\ exit_code = "EXECUTION_OK"
         /\ \A i \in DOMAIN map :
              ~Skipped(map[i], current_max_ms_level) => i \in DeconvolvedScans

\* C4: a spectrum with zero peaks is never passed to deconvolution, is in no
\* buffer, in no result list and not in the tracer, and the loop iteration that
\* meets it changes no per-level counter and none of these collections.
C4_NoEmptySpectrumProcessed ==
  pc # "start" =>
    /\ \A i \in DeconvolvedScans : ~SpectrumEmpty(map[i])
    /\ \A e \in PublishedEntries : ~SpectrumEmpty(map[e.scan])
    /\ \A i \in DOMAIN mass_tracer : ~SpectrumEmpty(map[mass_tracer[i].scan])
    /\ \A i \in DOMAIN decoy_deconvolved_spectra :
         ~SpectrumEmpty(map[decoy_deconvolved_spectra[i].scan])

C4_EmptySpectrumStep ==
  (pc = "loop" /\ it <= Len(map) /\ SpectrumEmpty(map[it])) =>
    /\ UNCHANGED <<spec_cntr, qspec_cntr, mass_cntr, last_deconvolved_spectra,
                   deconvolved_spectra, decoy_deconvolved_spectra, mass_tracer>>
    /\ hist'.deconv = hist.deconv

C4_EmptySpectrumYieldsNothing ==
  [](C4_NoEmptySpectrumProcessed) /\ [][C4_EmptySpectrumStep]_vars

\* a run that met an empty spectrum, deconvolved another one and came to its end
C4_Witness ==
  /\ pc = "done"
  /\ \E i \in DOMAIN map : SpectrumEmpty(map[i])
  /\ deconvolved_spectra # <<>>

\* C5: with a maximum mass below the minimum mass no spectrum is deconvolved and
\* the Averagine table is not queried.
C5_ConfigErrorIsFatal ==
  cfg.mass_range[2] < cfg.mass_range[1] => (hist.deconv = <<>> /\ hist.avg_queries = 0)

\* C6: findFeatures is called at most once, only when every spectrum the loop does
\* not skip has been deconvolved, and once it has started nothing more is
\* deconvolved or stored into the tracer.
C6_FindFeaturesCalledLast ==
  /\ hist.find_features <= 1
  /\ hist.find_features = 1 =>
       \A i \in DOMAIN map : ~Skipped(map[i], current_max_ms_level) => i \in DeconvolvedScans

C6_NothingAfterFindFeatures ==
  hist.find_features >= 1 => (hist'.deconv = hist.deconv /\ mass_tracer' = mass_tracer)

C6_TracerIsBatchStage ==
  [](C6_FindFeaturesCalledLast) /\ [][C6_NothingAfterFindFeatures]_vars

\* findFeatures has run over a tracer that holds a deconvolved spectrum
C6_Witness ==
  hist.find_features = 1 /\ mass_tracer # <<>> /\ Len(hist.deconv) = Len(map) /\ Len(map) > 1

\* C7: when findFeatures starts, every spectrum with a non-empty deconvolution
\* result has been stored into the tracer, whatever output files were requested.
C7_TracerHoldsCompleteStream ==
  (pc = "tracer" /\ cfg.merge # 2) =>
    \A i \in DOMAIN deconvolved_spectra :
      \E j \in DOMAIN mass_tracer : mass_tracer[j].scan = deconvolved_spectra[i].scan

\* the mass, peaks and scores of the PeakGroups of a deconvolved spectrum
Core(ds) == [masses |-> ds.masses, peaks |-> ds.peaks, score |-> ds.score]

\* C8: the PeakGroups held in the buffer of last deconvolved spectra or in the list
\* of deconvolved spectra keep the mass, peaks and scores they were first
\* published with, through every later step of the run.
C8_PublishedPeakGroupsImmutable ==
  \A e \in PublishedEntries :
    /\ e.scan \in DOMAIN hist.first_pub
    /\ Core(e) = Core(hist.first_pub[e.scan])

\* a finished decoy run: q-values updated, decoy peaks cleared, a spectrum still buffered
C8_Witness ==
  /\ pc = "done"
  /\ \E i \in DOMAIN deconvolved_spectra : deconvolved_spectra[i].qvalue = 1
  /\ \E i \in DOMAIN decoy_deconvolved_spectra : ~decoy_deconvolved_spectra[i].peaks
  /\ \E l \in DOMAIN last_deconvolved_spectra : last_deconvolved_spectra[l] # <<>>

\* C9: within each MS level, spectra are deconvolved in non-decreasing
\* retention-time order, for every input run and every merge setting.
C9_DeconvolvedInRTOrder ==
  \A i, j \in DOMAIN hist.deconv :
    (i < j /\ hist.deconv[i].ms_level = hist.deconv[j].ms_level)
      => hist.deconv[i].rt <= hist.deconv[j].rt

\* -------------------------------------- PrecalculatedAveragine: the table
MaxGridMass == 5    \* largest max_mass and largest queried mass tried

\* the main run idle, while a component is exercised on its own
MainUnused ==
  InitWith({<<>>}, Options({DefaultMaxMSLevel}, {MinPrecedingMS1Count}, {0}, {FALSE}, {FALSE},
                           {1}, {ValidMassRange}))

\* round() of the non-negative quotient n / d: a half rounds away from zero
Round(n, d) == (2 * n + d) \div (2 * d)

\* massToIndex_(mass). isotopes_.size() - 1 is unsigned: on an empty table it
\* is the largest Size, so std::min keeps i
massToIndex_(t, mass) ==
  LET i == Round(Max(0, mass - t.min_mass_), t.mass_interval_)
  IN IF Len(t.isotopes_) = 0 THEN i ELSE Min(i, Len(t.isotopes_) - 1)

\* get(mass): isotopes_[massToIndex_(mass)]; the templates are named by their
\* grid mass. An index past the end of the vector reads out of bounds: the
\* outcomes are an abort or some value
get(t, mass) ==
  LET i == massToIndex_(t, mass)
  IN IF i < Len(t.isotopes_)
     THEN {[outcome |-> "template", template |-> t.isotopes_[i + 1]]}
     ELSE {[outcome |-> "abort", template |-> 0], [outcome |-> "garbage", template |-> 0]}

InitAveragine ==
  /\ MainUnused
  /\ tmpl = Unused /\ peak = Unused /\ tracer = Unused /\ MoreUnused
  /\ averagine \in [pc : {"new"}, min_mass_ : 0..2, max_mass : 0..MaxGridMass,
                    mass_interval_ : 1..2, isotopes_ : {<<>>},
                    query : {[mass |-> 0, index |-> 0, outcome |-> "none", template |-> 0]}]

\* the constructor: one template per grid mass
ConstructAveragine ==
  /\ averagine.pc = "new"
  /\ averagine' = [averagine EXCEPT
                     !.pc = "built",
                     !.isotopes_ = PrecalculatedAveragine(averagine.min_mass_, averagine.max_mass,
                                                          averagine.mass_interval_)]
  /\ UNCHANGED <<vars, tmpl, peak, tracer, moreVars>>

\* a call of get(mass)
GetTemplate ==
  /\ averagine.pc = "built"
  /\ \E mass \in 0..(MaxGridMass + 1) : \E r \in get(averagine, mass) :
       averagine' = [averagine EXCEPT
                       !.query = [mass |-> mass, index |-> massToIndex_(averagine, mass),
                                  outcome |-> r.outcome, template |-> r.template]]
  /\ UNCHANGED <<vars, tmpl, peak, tracer, moreVars>>

NextAveragine == ConstructAveragine \/ GetTemplate

SpecAveragine == InitAveragine /\ [][NextAveragine]_allVars

Abs(x) == IF x < 0 THEN -x ELSE x

\* C12: get(mass) returns the template of the grid mass nearest to the queried
\* mass, at index clamp(round((mass - minMass) / massStep)) into [0, size - 1]; a
\* mass below minMass gets the first template and a mass above maxMass the last.
C12_GetReturnsNearestTemplate ==
  (averagine.pc = "built" /\ averagine.query.outcome # "none" /\ averagine.isotopes_ # <<>>) =>
    LET q == averagine.query
        grid == averagine.isotopes_
    IN /\ q.index = Max(0, Min(Len(grid) - 1,
                               Round(Max(0, q.mass - averagine.min_mass_), averagine.mass_interval_)))
       /\ q.outcome = "template"
       /\ q.template \in {grid[k] : k \in DOMAIN grid}
       /\ \A k \in DOMAIN grid : Abs(q.template - q.mass) <= Abs(grid[k] - q.mass)
       /\ q.mass < averagine.min_mass_ => q.template = grid[1]
       /\ q.mass > averagine.max_mass => q.template = grid[Len(grid)]

\* ------------------------------- PrecalculatedAveragine: one template
MaxIsoLen == 4      \* isotopes in a theoretical distribution: 2..MaxIsoLen

min_pwr_num == 9999         \* const double min_pwr = .9999, as min_pwr_num / min_pwr_den
min_pwr_den == 10000
min_iso_length == 2         \* const Size min_iso_length = 2
min_left_right_count == 2   \* const int min_left_right_count = 2

\* intensities of the distribution the generator estimates for a grid mass
Intensities == {1, 10, 100}
IsotopeDistributions == UNION {[1..n -> Intensities] : n \in 2..MaxIsoLen}

RECURSIVE SumSq(_)
SumSq(s) == IF s = <<>> THEN 0 ELSE s[1] * s[1] + SumSq(Tail(s))

\* most_abundant_index_: the first isotope with the largest intensity (0-based)
MostAbundantIndex(iso) ==
  CHOOSE k \in 0..(Len(iso) - 1) :
    /\ \A j \in 0..(Len(iso) - 1) : iso[j + 1] <= iso[k + 1]
    /\ \A j \in 0..(k - 1) : iso[j + 1] < iso[k + 1]

\* if (total_pwr - pwr < total_pwr * min_pwr) break;
TrimStops(total_pwr, pwr) == min_pwr_den * (total_pwr - pwr) < min_pwr_num * total_pwr

\* the trimming loop over s = [iso, left_count, right_count, trim_count, total_pwr]
RECURSIVE TrimLoop(_)
TrimLoop(s) ==
  IF ~(Len(s.iso) - s.trim_count > min_iso_length /\ s.left_count < s.right_count) THEN s
  ELSE LET lint == s.iso[s.left_count + 1]
           rint == s.iso[s.right_count + 1]
           trim_left == lint < rint
           pwr == IF trim_left THEN lint * lint ELSE rint * rint
       IN IF TrimStops(s.total_pwr, pwr) THEN s
          ELSE TrimLoop([iso |-> [s.iso EXCEPT ![IF trim_left THEN s.left_count + 1
                                                  ELSE s.right_count + 1] = 0],
                         left_count |-> IF trim_left THEN s.left_count + 1 ELSE s.left_count,
                         right_count |-> IF trim_left THEN s.right_count ELSE s.right_count - 1,
                         trim_count |-> s.trim_count + 1,
                         total_pwr |-> s.total_pwr - pwr])

\* iso.trimRight(1e-10): trailing isotopes of (near) zero intensity are removed
RECURSIVE trimRight(_)
trimRight(iso) ==
  IF iso # <<>> /\ iso[Len(iso)] = 0 THEN trimRight(SubSeq(iso, 1, Len(iso) - 1)) ELSE iso

\* the extents kept as counted, without the minimum
KeepExtent(count) == count

\* left_count < min_left_right_count ? min_left_right_count : left_count
ClampExtent(count) == IF count < min_left_right_count THEN min_left_right_count ELSE count

\* one pass of the constructor's loop body for the distribution iso; the
\* intensities are later divided by sqrt(total_pwr), kept here as norm_sq
Template(iso) ==
  LET apex == MostAbundantIndex(iso)
      s == TrimLoop([iso |-> iso, left_count |-> 0, right_count |-> Len(iso) - 1,
                     trim_count |-> 0, total_pwr |-> SumSq(iso)])
  IN [isotopes |-> trimRight(s.iso),
      apex_index |-> apex,
      left_count_from_apex |-> ClampExtent(apex - s.left_count),
      right_count_from_apex |-> ClampExtent(s.right_count - apex),
      trim_count |-> s.trim_count,
      norm_sq |-> s.total_pwr]

InitTemplate ==
  /\ MainUnused
  /\ averagine = Unused /\ peak = Unused /\ tracer = Unused /\ MoreUnused
  /\ tmpl \in [pc : {"estimated"}, iso : IsotopeDistributions, built : {Unused}]

\* the loop body of the constructor from the estimate to the push_back calls
BuildTemplate ==
  /\ tmpl.pc = "estimated"
  /\ tmpl' = [tmpl EXCEPT !.pc = "built", !.built = Template(tmpl.iso)]
  /\ UNCHANGED <<vars, averagine, peak, tracer, moreVars>>

NextTemplate == BuildTemplate

SpecTemplate == InitTemplate /\ [][NextTemplate]_allVars

\* C13: the isotopes kept after trimming hold at least 99.99% of the total power
\* of the full theoretical distribution.
C13_TrimmingKeepsPower ==
  tmpl.pc = "built" => 10000 * SumSq(tmpl.built.isotopes) >= 9999 * SumSq(tmpl.iso)

\* C14: the trimmed template keeps at least 2 isotopes and the left and right
\* extents from the apex reported for it are each at least 2.
C14_TemplateMinimumExtents ==
  tmpl.pc = "built" =>
    /\ Cardinality({k \in DOMAIN tmpl.built.isotopes : tmpl.built.isotopes[k] > 0}) >= 2
    /\ tmpl.built.left_count_from_apex >= 2
    /\ tmpl.built.right_count_from_apex >= 2

\* a template with isotopes trimmed whose apex is its first isotope
C14_Witness ==
  tmpl.pc = "built" /\ tmpl.built.trim_count > 0 /\ tmpl.built.apex_index = 0

\* ------------------------------------------------------------ LogMzPeak
MaxMz == 4          \* largest m/z of the peak: 2..MaxMz
MaxCharge == 2      \* largest charge assigned to the peak

\* getChargeMass(positive): the proton mass, taken as one mass unit
getChargeMass(positive) == IF positive THEN 1 ELSE -1

\* the constructor: mz and polarity from the arguments, abs_charge = 0; mass is
\* not in the initialiser list and starts at 0
LogMzPeak(mz, positive) ==
  [pc |-> "peak", mz |-> mz, is_positive |-> positive, abs_charge |-> 0, mass |-> 0,
   call |-> [made |-> FALSE, abs_charge |-> 0, result |-> 0]]

\* getUnchargedMass(): the pair <<returned value, mass member afterwards>>
getUnchargedMass(p) ==
  IF p.abs_charge = 0 THEN <<0, p.mass>>
  ELSE LET m == IF p.mass <= 0 THEN (p.mz - getChargeMass(p.is_positive)) * p.abs_charge
                ELSE p.mass
       IN <<m, m>>

InitPeak ==
  /\ MainUnused
  /\ averagine = Unused /\ tmpl = Unused /\ tracer = Unused /\ MoreUnused
  /\ peak \in {LogMzPeak(mz, positive) : mz \in 2..MaxMz, positive \in BOOLEAN}

\* an assignment to the public member abs_charge
AssignCharge ==
  /\ peak.pc = "peak"
  /\ \E c \in 0..MaxCharge : peak' = [peak EXCEPT !.abs_charge = c]
  /\ UNCHANGED <<vars, averagine, tmpl, tracer, moreVars>>

\* a call of getUnchargedMass()
CallGetUnchargedMass ==
  /\ peak.pc = "peak"
  /\ LET r == getUnchargedMass(peak)
     IN peak' = [peak EXCEPT !.mass = r[2],
                             !.call = [made |-> TRUE, abs_charge |-> peak.abs_charge,
                                       result |-> r[1]]]
  /\ UNCHANGED <<vars, averagine, tmpl, tracer, moreVars>>

NextPeak == AssignCharge \/ CallGetUnchargedMass

SpecPeak == InitPeak /\ [][NextPeak]_allVars

\* C15: getUnchargedMass returns (mz - carrierMass) * c for the charge c the peak
\* has at the time of the call, after any sequence of charge assignments and
\* earlier calls, and 0 for a peak of charge 0.
C15_UnchargedMassOfCurrentCharge ==
  peak.call.made =>
    peak.call.result = (peak.mz - getChargeMass(peak.is_positive)) * peak.call.abs_charge

\* --------------------------------------- MassFeatureTrace::findFeatures
MaxTraceSpectra == 3   \* spectra whose PeakGroups are handed to findFeatures

\* the retention times of the spectra, and the values a cosine score takes
TraceRTs == 1..4
Scores == 0..2

\* the monoisotopic masses of the PeakGroups: far apart, also as float
TraceMasses == {2, 4}

\* a double narrowed to float (the keys of rtSpecMap and peakGroupMap): values
\* closer than the float resolution become one key
ToFloat(x) == 2 * (x \div 2)

\* the peaks of a PeakGroup of abundance w: two charges, two isotopes
PeaksOf(w) ==
  <<[charge |-> 1, isotopeIndex |-> 0, intensity |-> w],
    [charge |-> 2, isotopeIndex |-> 1, intensity |-> 2 * w]>>

\* a PeakGroup of the spectrum with index specIndex and retention time rt
PeakGroup(specIndex, rt, mass, w) ==
  [specIndex |-> specIndex, rt |-> rt, monoisotopicMass |-> mass, intensity |-> 3 * w,
   massDiff |-> 1, peaks |-> PeaksOf(w)]

\* a default-constructed PeakGroup, as operator[] of the map inserts it
DefaultPeakGroups ==
  {[specIndex |-> 0, rt |-> 0, monoisotopicMass |-> 0, intensity |-> 0, massDiff |-> d,
    peaks |-> <<>>] : d \in {0, 1}}

\* the deconvolved spectra: retention times strictly increasing, each with a
\* non-empty set of masses and one abundance
TraceSpectra ==
  UNION {{s \in [1..n -> [rt : TraceRTs, masses : (SUBSET TraceMasses) \ {{}}, w : {1, 2}]] :
            \A i \in 1..(n - 1) : s[i].rt < s[i + 1].rt}
         : n \in 1..MaxTraceSpectra}

RECURSIVE SetToSeq(_)
SetToSeq(S) ==
  IF S = {} THEN <<>>
  ELSE LET x == CHOOSE x \in S : \A y \in S : x <= y IN <<x>> \o SetToSeq(S \ {x})

\* std::vector<PeakGroup> &peakGroups: the PeakGroups of all spectra, spectrum by spectrum
RECURSIVE PeakGroupsFrom(_, _)
PeakGroupsFrom(s, i) ==
  IF i > Len(s) THEN <<>>
  ELSE LET ms == SetToSeq(s[i].masses)
       IN [k \in DOMAIN ms |-> PeakGroup(i, s[i].rt, ms[k], s[i].w)] \o PeakGroupsFrom(s, i + 1)

\* the Parameter fields and thresholds findFeatures reads
TraceParams ==
  [minRTSpan : {0, 2}, minChargeCosine : {1}, minIsotopeCosine : {1},
   maxChargeIndex : {2}, maxIsotopeCount : {2}]

\* the last index k of s with P(s[k]), 0 if none
LastIndexWhere(s, P(_)) ==
  LET hits == {k \in DOMAIN s : P(s[k])}
  IN IF hits = {} THEN 0 ELSE CHOOSE k \in hits : \A j \in hits : j <= k

\* rtSpecMap[spec->getRT()] = pg.specIndex for every PeakGroup: the last one wins
BuildRtSpecMap(pgs) ==
  [r \in {ToFloat(pgs[k].rt) : k \in DOMAIN pgs} |->
     pgs[LastIndexWhere(pgs, LAMBDA g : ToFloat(g.rt) = r)].specIndex]

\* peakGroupMap[pg.specIndex][pg.monoisotopicMass] = pg for every PeakGroup
BuildPeakGroupMap(pgs) ==
  [i \in {pgs[k].specIndex : k \in DOMAIN pgs} |->
     [m \in {ToFloat(pgs[k].monoisotopicMass) : k \in {j \in DOMAIN pgs : pgs[j].specIndex = i}} |->
        pgs[LastIndexWhere(pgs, LAMBDA g : g.specIndex = i /\ ToFloat(g.monoisotopicMass) = m)]]]

\* the trace length limit handed to the detection left at zero
NoMinTraceLength(param) == 0

\* mtd_param.setValue("min_trace_length", param.minRTSpan)
min_trace_length(param) == param.minRTSpan

\* MassTraceDetection::run: the points (RT, mass), one per PeakGroup, of one mass
\* form a trace in RT order; a trace shorter than min_trace_length is dropped.
\* origin is the PeakGroup a point was made from.
MassTraceDetection(pgs, param) ==
  LET TraceOf(m) == SelectSeq([k \in DOMAIN pgs |-> [rt |-> pgs[k].rt, mz |-> pgs[k].monoisotopicMass,
                                                     origin |-> k]],
                              LAMBDA p : p.mz = m)
      kept == {m \in {pgs[k].monoisotopicMass : k \in DOMAIN pgs} :
                 LET mt == TraceOf(m)
                 IN mt[Len(mt)].rt - mt[1].rt >= min_trace_length(param)}
      ms == SetToSeq(kept)
  IN [k \in DOMAIN ms |-> TraceOf(ms[k])]

\* auto &pg = peakGroupMap[rtSpecMap[(float) p2.getRT()]][(float) p2.getMZ()];
\* a missing key yields the default-constructed PeakGroup dflt
LookupPeakGroup(t, p2, dflt) ==
  LET specIndex == t.rtSpecMap[ToFloat(p2.rt)]
      pgMap == t.peakGroupMap[specIndex]
  IN IF ToFloat(p2.mz) \in DOMAIN pgMap THEN pgMap[ToFloat(p2.mz)] ELSE dflt

RECURSIVE PeaksOfAll(_)
PeaksOfAll(pgs) == IF pgs = <<>> THEN <<>> ELSE pgs[1].peaks \o PeaksOfAll(Tail(pgs))

RECURSIVE SumIntensity(_)
SumIntensity(ps) == IF ps = <<>> THEN 0 ELSE ps[1].intensity + SumIntensity(Tail(ps))

\* the peaks the aggregation loop does not skip
InRange(p, param) ==
  ~(p.isotopeIndex < 0 \/ p.isotopeIndex >= param.maxIsotopeCount \/ p.charge < 0
      \/ p.charge >= param.maxChargeIndex + 1)

\* perChargeIntensity after the loop over the PeakGroups pgs
PerChargeIntensity(pgs, param) ==
  [c \in 0..param.maxChargeIndex |->
     SumIntensity(SelectSeq(PeaksOfAll(pgs), LAMBDA p : InRange(p, param) /\ p.charge = c))]

\* perIsotopeIntensity after the loop over the PeakGroups pgs
PerIsotopeIntensity(pgs, param) ==
  [i \in 0..(param.maxIsotopeCount - 1) |->
     SumIntensity(SelectSeq(PeaksOfAll(pgs), LAMBDA p : InRange(p, param) /\ p.isotopeIndex = i))]

\* massDiff: avgMass - monoisotopicMass of the first PeakGroup of largest intensity
MassDiffOf(pgs) ==
  IF pgs = <<>> THEN 0
  ELSE LET k == CHOOSE k \in DOMAIN pgs :
                  /\ \A j \in DOMAIN pgs : pgs[j].intensity <= pgs[k].intensity
                  /\ \A j \in 1..(k - 1) : pgs[j].intensity < pgs[k].intensity
       IN pgs[k].massDiff

\* the isotope gate left out
PassesAnyIsotopeScore(isoScore, param) == TRUE

\* if (isoScore < param.minIsotopeCosine) continue;
PassesIsotopeGate(isoScore, param) == ~(isoScore < param.minIsotopeCosine)

\* if (chargeScore < param.minChargeCosine) continue;
PassesChargeGate(chargeScore, param) == ~(chargeScore < param.minChargeCosine)

\* the counter left as it is
SameFeatureCntr(featureCntr) == featureCntr

\* ++featureCntr
IncrementFeatureCntr(featureCntr) == featureCntr + 1

\* the retention time of the first point of a trace
FirstRT(mt) == mt[1].rt

\* mt.begin()->getRT()
rtStart(mt) == mt[1].rt

\* mt.rbegin()->getRT()
rtEnd(mt) == mt[Len(mt)].rt

InitTracer ==
  /\ MainUnused
  /\ averagine = Unused /\ tmpl = Unused /\ peak = Unused /\ MoreUnused
  /\ \E s \in TraceSpectra, param \in TraceParams :
       tracer = [pc |-> "start", param |-> param, peakGroups |-> PeakGroupsFrom(s, 1),
                 rtSpecMap |-> <<>>, peakGroupMap |-> <<>>, m_traces |-> <<>>, mt |-> 1,
                 featureCntr |-> 0, fsf |-> <<>>, log |-> <<>>]

\* the loops that fill rtSpecMap, map and peakGroupMap
BuildMaps ==
  /\ tracer.pc = "start"
  /\ tracer' = [tracer EXCEPT !.pc = "maps",
                              !.rtSpecMap = BuildRtSpecMap(tracer.peakGroups),
                              !.peakGroupMap = BuildPeakGroupMap(tracer.peakGroups)]
  /\ UNCHANGED <<vars, averagine, tmpl, peak, moreVars>>

\* mtdet.setParameters(mtd_param); mtdet.run(map, m_traces)
RunMassTraceDetection ==
  /\ tracer.pc = "maps"
  /\ tracer' = [tracer EXCEPT !.pc = "traces",
                              !.m_traces = MassTraceDetection(tracer.peakGroups, tracer.param)]
  /\ UNCHANGED <<vars, averagine, tmpl, peak, moreVars>>

\* one iteration of the loop over m_traces: aggregation, the gates, the output
\* line. The two cosine functions are not computed here: a score is any value.
ProcessTrace ==
  /\ tracer.pc = "traces" /\ tracer.mt <= Len(tracer.m_traces)
  /\ \E dflt \in DefaultPeakGroups, chargeScore \in Scores, isoScore \in Scores :
       LET mt == tracer.m_traces[tracer.mt]
           found == [k \in DOMAIN mt |-> LookupPeakGroup(tracer, mt[k], dflt)]
           perCharge == PerChargeIntensity(found, tracer.param)
           perIsotope == PerIsotopeIntensity(found, tracer.param)
           outcome == IF MassDiffOf(found) <= 0 THEN "massDiff"
                      ELSE IF ~PassesChargeGate(chargeScore, tracer.param) THEN "charge"
                      ELSE IF ~PassesIsotopeGate(isoScore, tracer.param) THEN "isotope"
                      ELSE "feature"
           cntr == IF outcome = "feature" THEN IncrementFeatureCntr(tracer.featureCntr)
                   ELSE tracer.featureCntr
           entry == [trace |-> tracer.mt, perChargeIntensity |-> perCharge,
                     perIsotopeIntensity |-> perIsotope, outcome |-> outcome,
                     chargeScore |-> IF outcome = "massDiff" THEN -1 ELSE chargeScore,
                     isoScore |-> IF outcome \in {"massDiff", "charge"} THEN -1 ELSE isoScore,
                     cntr_before |-> tracer.featureCntr, cntr_after |-> cntr,
                     lines_before |-> Len(tracer.fsf)]
           line == [id |-> cntr, trace |-> tracer.mt, mass |-> mt[1].mz, size |-> Len(mt),
                    rtStart |-> rtStart(mt), rtEnd |-> rtEnd(mt),
                    chargeScore |-> chargeScore, isoScore |-> isoScore]
       IN tracer' = [tracer EXCEPT
                       !.mt = @ + 1,
                       !.featureCntr = cntr,
                       !.fsf = IF outcome = "feature" THEN Append(@, line) ELSE @,
                       !.log = Append(@, entry)]
  /\ UNCHANGED <<vars, averagine, tmpl, peak, moreVars>>

\* the end of the loop over m_traces
TracesDone ==
  /\ tracer.pc = "traces" /\ tracer.mt > Len(tracer.m_traces)
  /\ tracer' = [tracer EXCEPT !.pc = "done"]
  /\ UNCHANGED <<vars, averagine, tmpl, peak, moreVars>>

NextTracer == BuildMaps \/ RunMassTraceDetection \/ ProcessTrace \/ TracesDone

SpecTracer == InitTracer /\ [][NextTracer]_allVars

\* the PeakGroups the points of trace mt were made from
Members(mt) == [k \in DOMAIN mt |-> tracer.peakGroups[mt[k].origin]]

\* every spectrum holds the one identical PeakGroup
IdenticalPeakGroups ==
  \A j, k \in DOMAIN tracer.peakGroups :
    /\ tracer.peakGroups[j].monoisotopicMass = tracer.peakGroups[k].monoisotopicMass
    /\ tracer.peakGroups[j].peaks = tracer.peakGroups[k].peaks
    /\ j # k => tracer.peakGroups[j].specIndex # tracer.peakGroups[k].specIndex

\* C16: the identical PeakGroup stored for several spectra at increasing retention
\* times, with a trace that passes the score thresholds, yields exactly one
\* Feature, from the earliest to the latest of the retention times.
C16_IdenticalPeakGroupsOneFeature ==
  (tracer.pc = "done" /\ Len(tracer.peakGroups) >= 2 /\ IdenticalPeakGroups
     /\ \E i \in DOMAIN tracer.log : tracer.log[i].outcome = "feature") =>
    /\ Len(tracer.fsf) = 1
    /\ tracer.fsf[1].rtStart = tracer.peakGroups[1].rt
    /\ tracer.fsf[1].rtEnd = tracer.peakGroups[Len(tracer.peakGroups)].rt
    /\ \A k \in DOMAIN tracer.peakGroups :
         tracer.fsf[1].rtStart <= tracer.peakGroups[k].rt
           /\ tracer.peakGroups[k].rt <= tracer.fsf[1].rtEnd

\* the identical PeakGroup in three spectra, one Feature written
C16_Witness ==
  tracer.pc = "done" /\ Len(tracer.peakGroups) = 3 /\ IdenticalPeakGroups /\ Len(tracer.fsf) = 1

\* C17: the aggregated per-charge and per-isotope intensity vectors of a trace
\* are the element-wise sums over the peaks of its member PeakGroups and of no
\* other PeakGroup.
C17_AggregatesSumOfMembers ==
  tracer.pc \in {"traces", "done"} =>
    \A i \in DOMAIN tracer.log :
      LET members == Members(tracer.m_traces[tracer.log[i].trace])
      IN /\ tracer.log[i].perChargeIntensity = PerChargeIntensity(members, tracer.param)
         /\ tracer.log[i].perIsotopeIntensity = PerIsotopeIntensity(members, tracer.param)

\* C18: every Feature written has a charge-cosine score of at least
\* minChargeCosine and an isotope-cosine score of at least minIsotopeCosine; a
\* trace scored below either threshold is not written.
C18_FeaturesPassBothGates ==
  tracer.pc \in {"traces", "done"} =>
    /\ \A f \in DOMAIN tracer.fsf :
         /\ tracer.fsf[f].chargeScore >= tracer.param.minChargeCosine
         /\ tracer.fsf[f].isoScore >= tracer.param.minIsotopeCosine
    /\ \A i \in DOMAIN tracer.log :
         (tracer.log[i].outcome # "massDiff"
            /\ (tracer.log[i].chargeScore < tracer.param.minChargeCosine
                  \/ (tracer.log[i].isoScore >= 0
                        /\ tracer.log[i].isoScore < tracer.param.minIsotopeCosine)))
           => ~\E f \in DOMAIN tracer.fsf : tracer.fsf[f].trace = tracer.log[i].trace

\* a Feature written and another trace rejected by a score
C18_Witness ==
  /\ tracer.pc = "done" /\ tracer.fsf # <<>>
  /\ \E i \in DOMAIN tracer.log : tracer.log[i].outcome \in {"charge", "isotope"}

\* C19: exactly one Feature per trace that passes the gates and none for any
\* other; the counter grows by one per Feature, so the ids are consecutive and
\* unique, and a rejected trace leaves counter and output as they were.
C19_OneFeaturePerAcceptedTrace ==
  tracer.pc \in {"traces", "done"} =>
    /\ \A i \in DOMAIN tracer.log :
         LET e == tracer.log[i]
             passed == e.chargeScore >= tracer.param.minChargeCosine
                         /\ e.isoScore >= tracer.param.minIsotopeCosine
         IN /\ Cardinality({f \in DOMAIN tracer.fsf : tracer.fsf[f].trace = e.trace})
                 = IF passed THEN 1 ELSE 0
            /\ e.cntr_after = e.cntr_before + (IF passed THEN 1 ELSE 0)
            /\ ~passed => (i = Len(tracer.log) => Len(tracer.fsf) = e.lines_before)
    /\ \A f \in DOMAIN tracer.fsf : tracer.fsf[f].id = f
    /\ tracer.featureCntr = Len(tracer.fsf)

\* a trace rejected, then a Feature written for the next one
C19_Witness ==
  /\ tracer.pc = "done" /\ Len(tracer.log) = 2
  /\ tracer.log[1].outcome # "feature" /\ tracer.log[2].outcome = "feature"
  /\ tracer.featureCntr = 1

\* C20: no Feature written has an RT span (rtEnd - rtStart) below the
\* configured minimum RT span.
C20_NoFeatureBelowMinRTSpan ==
  \A f \in DOMAIN tracer.fsf :
    tracer.fsf[f].rtEnd - tracer.fsf[f].rtStart >= tracer.param.minRTSpan

\* a minimum span is set, a Feature is written and a mass too short in RT has no trace
C20_Witness ==
  /\ tracer.pc = "done" /\ tracer.param.minRTSpan > 0 /\ tracer.fsf # <<>>
  /\ \E k \in DOMAIN tracer.peakGroups :
       \A m \in DOMAIN tracer.m_traces :
         tracer.m_traces[m][1].mz # tracer.peakGroups[k].monoisotopicMass

\* ------------------------- findFeatures: the mass tolerance of the detection
MaxTracePoints == 3    \* points (one PeakGroup each, one per spectrum) handed to the detection

\* the other components while this one is exercised
OnlyDetection ==
  /\ MainUnused
  /\ averagine = Unused /\ tmpl = Unused /\ peak = Unused /\ tracer = Unused
  /\ filter = Unused /\ stack = Unused /\ zoom = Unused

\* the points: retention times strictly increasing, masses a few ppm apart
\* (one unit of mz is one ppm at the mass modelled)
TracePoints ==
  UNION {{s \in [1..n -> [rt : TraceRTs, mz : 100..103]] :
            \A i \in 1..(n - 1) : s[i].rt < s[i + 1].rt}
         : n \in 1..MaxTracePoints}

\* mtd_param.setValue("mass_error_ppm", param.tolerance * 1e6 * 2, "")
mass_error_ppm(param) == param.tolerance * 2

\* two masses within ppm of each other
WithinPpm(m1, m2, ppm) == Abs(m1 - m2) <= ppm

\* MassTraceDetection::run, one point: the point joins the first trace all of
\* whose points lie within mass_error_ppm of it, and starts a trace otherwise
ExtendTraces(traces, p, param) ==
  LET fits == {k \in DOMAIN traces :
                 \A j \in DOMAIN traces[k] : WithinPpm(traces[k][j].mz, p.mz, mass_error_ppm(param))}
  IN IF fits = {} THEN Append(traces, <<p>>)
     ELSE LET k == CHOOSE k \in fits : \A j \in fits : k <= j
          IN [traces EXCEPT ![k] = Append(@, p)]

InitDetection ==
  /\ OnlyDetection
  /\ \E s \in TracePoints, tol \in 1..2 :
       detection = [pc |-> "start", param |-> [tolerance |-> tol], map |-> s, next |-> 1,
                    mass_error_ppm |-> 0, m_traces |-> <<>>]

\* mtdet.setParameters(mtd_param)
SetDetectionParameters ==
  /\ detection.pc = "start"
  /\ detection' = [detection EXCEPT !.pc = "run", !.mass_error_ppm = mass_error_ppm(detection.param)]
  /\ UNCHANGED <<vars, averagine, tmpl, peak, tracer, filter, stack, zoom>>

\* mtdet.run(map, m_traces): the next spectrum's point
DetectPoint ==
  /\ detection.pc = "run" /\ detection.next <= Len(detection.map)
  /\ detection' = [detection EXCEPT
                     !.next = @ + 1,
                     !.m_traces = ExtendTraces(@, detection.map[detection.next], detection.param)]
  /\ UNCHANGED <<vars, averagine, tmpl, peak, tracer, filter, stack, zoom>>

DetectionDone ==
  /\ detection.pc = "run" /\ detection.next > Len(detection.map)
  /\ detection' = [detection EXCEPT !.pc = "done"]
  /\ UNCHANGED <<vars, averagine, tmpl, peak, tracer, filter, stack, zoom>>

NextDetection == SetDetectionParameters \/ DetectPoint \/ DetectionDone

SpecDetection == InitDetection /\ [][NextDetection]_allVars

\* C21: within every trace (the members of a Feature) the points are in
\* non-decreasing retention-time order and their masses are mutually within the
\* configured mass tolerance.
C21_MembersOrderedAndWithinTolerance ==
  \A k \in DOMAIN detection.m_traces :
    LET mt == detection.m_traces[k]
    IN /\ \A i, j \in DOMAIN mt : i <= j => mt[i].rt <= mt[j].rt
       /\ \A i, j \in DOMAIN mt : WithinPpm(mt[i].mz, mt[j].mz, detection.param.tolerance)

\* ------------------------------------------- main_: the per-level counters
\* the entries of deconvolved_spectra of MS level l
ResultsOfLevel(l) == {k \in DOMAIN deconvolved_spectra : deconvolved_spectra[k].ms_level = l}

RECURSIVE MassesIn(_)
MassesIn(K) ==
  IF K = {} THEN 0
  ELSE LET k == CHOOSE k \in K : TRUE
       IN Cardinality(deconvolved_spectra[k].masses) + MassesIn(K \ {k})

MapsAnyLevel ==
  UNION {{m \in [1..n -> [ms_level : 0..2, rt : 1..MaxSpectra, size : {0, 1}, precursors : {TRUE}]] :
            \A i \in 1..n : m[i].rt = i}
         : n \in 0..MaxSpectra}

InitAnyLevel ==
  InitWith(MapsAnyLevel,
           Options({2}, {MinPrecedingMS1Count}, {0}, {FALSE}, {FALSE}, {1}, {ValidMassRange}))
  /\ UnitsUnused

\* spec_cntr[ms_level - 1]++ with ms_level - 1 outside the vector: the write is
\* out of bounds; the run may abort here, or go on as DeconvolveSpectrum has it
CounterOutOfBounds ==
  /\ pc = "loop" /\ ~LoopDone(it, map)
  /\ ~Skipped(map[it], current_max_ms_level)
  /\ map[it].ms_level \notin DOMAIN spec_cntr
  /\ pc' = "crashed"
  /\ UNCHANGED <<cfg, map, it, current_max_ms_level, spec_cntr, qspec_cntr, mass_cntr,
                 last_deconvolved_spectra, deconvolved_spectra, decoy_deconvolved_spectra,
                 mass_tracer, avg, exit_code, hist>>
  /\ UNCHANGED unitVars

NextAnyLevel == Next \/ CounterOutOfBounds

SpecAnyLevel == InitAnyLevel /\ [][NextAnyLevel]_allVars

\* C24: no spectrum whose MS level exceeds current_max_ms_level is deconvolved,
\* current_max_ms_level never exceeds max_ms_level, and every access to a
\* per-level counter uses an index ms_level - 1 inside [0, max_ms_level).
C24_LevelsWithinBounds ==
  /\ current_max_ms_level <= cfg.max_ms_level
  /\ \A c \in DOMAIN hist.deconv :
       /\ hist.deconv[c].ms_level <= current_max_ms_level
       /\ hist.deconv[c].ms_level - 1 \in 0..(cfg.max_ms_level - 1)

\* the two upper bounds of C24 alone
LevelsBelowCurrentMax ==
  /\ current_max_ms_level <= cfg.max_ms_level
  /\ \A c \in DOMAIN hist.deconv : hist.deconv[c].ms_level <= current_max_ms_level

\* -------------------------------------------------------- filterLowPeaks
MaxPeaks == 3          \* peaks of a spectrum handed to filterLowPeaks

\* a peak: position and intensity
Peak1D == [mz : 1..2, intensity : 1..2]

\* the spectra: any sequence of peaks, in any order
PeakLists == UNION {[1..n -> Peak1D] : n \in 0..MaxPeaks}

\* the spectra of at most one peak
ShortPeakLists == {s \in PeakLists : Len(s) <= 1}

\* the orders of the peaks of spectrum s that satisfy Before on neighbours
SortedOrders(s, Before(_, _)) ==
  {o \in Orderings(s) : \A i \in 1..(Len(o) - 1) : Before(o[i], o[i + 1])}

\* the peaks in increasing order of intensity
sortByIntensityAscending(s) == SortedOrders(s, LAMBDA a, b : a.intensity <= b.intensity)

\* it.sortByIntensity(true): decreasing intensity, equal intensities in any order
sortByIntensity(s) == SortedOrders(s, LAMBDA a, b : a.intensity >= b.intensity)

\* it.sortByPosition(): increasing m/z, equal positions in any order
sortByPosition(s) == SortedOrders(s, LAMBDA a, b : a.mz <= b.mz)

\* the spectrum with no peak removed
PopBackNever(s, count) == s

\* while (it.size() > count) it.pop_back();
RECURSIVE PopBackTo(_, _)
PopBackTo(s, count) == IF Len(s) > count THEN PopBackTo(SubSeq(s, 1, Len(s) - 1), count) ELSE s

\* the body of the loop of filterLowPeaks for one spectrum: the spectra it can leave
FilterSpectrum(s, count) ==
  IF Len(s) <= count THEN {s}
  ELSE UNION {sortByPosition(PopBackTo(o, count)) : o \in sortByIntensity(s)}

\* filterLowPeaks(map, count) on a map of one or two spectra
FilteredMaps(m, count) ==
  IF Len(m) = 1 THEN {<<a>> : a \in FilterSpectrum(m[1], count)}
  ELSE {<<a, b>> : a \in FilterSpectrum(m[1], count), b \in FilterSpectrum(m[2], count)}

InitFilter ==
  /\ MainUnused
  /\ averagine = Unused /\ tmpl = Unused /\ peak = Unused /\ tracer = Unused
  /\ detection = Unused /\ stack = Unused /\ zoom = Unused
  /\ \E m \in [1..1 -> PeakLists] \cup {<<a, b>> : a \in PeakLists, b \in ShortPeakLists},
        count \in 0..2 :
       filter = [pc |-> "loaded", map |-> m, count |-> count, before |-> m]

\* a call of filterLowPeaks(map, count)
CallFilterLowPeaks ==
  /\ filter.pc = "loaded"
  /\ \E m \in FilteredMaps(filter.map, filter.count) :
       filter' = [filter EXCEPT !.pc = "filtered", !.map = m]
  /\ UNCHANGED <<vars, averagine, tmpl, peak, tracer, detection, stack, zoom>>

NextFilter == CallFilterLowPeaks

SpecFilter == InitFilter /\ [][NextFilter]_allVars

\* how often peak p occurs in spectrum s
Occurrences(s, p) == Cardinality({i \in DOMAIN s : s[i] = p})

\* C25: after filterLowPeaks(map, count) every spectrum has at most count peaks;
\* a spectrum that had more keeps exactly its count most intense peaks, sorted
\* by m/z, and a spectrum with at most count peaks is unchanged.
C25_FilterKeepsMostIntense ==
  filter.pc = "filtered" =>
    \A i \in DOMAIN filter.before :
      LET old == filter.before[i]
          new == filter.map[i]
      IN /\ Len(new) <= filter.count
         /\ Len(old) <= filter.count => new = old
         /\ Len(old) > filter.count =>
              /\ Len(new) = filter.count
              /\ \A k \in 1..(Len(new) - 1) : new[k].mz <= new[k + 1].mz
              /\ \A p \in Peak1D : Occurrences(new, p) <= Occurrences(old, p)
              /\ \A p, q \in Peak1D :
                   (Occurrences(new, p) > 0 /\ Occurrences(old, q) > Occurrences(new, q))
                     => q.intensity <= p.intensity

\* three peaks of two intensities stored out of m/z order, cut down to two
C25_Witness ==
  /\ filter.pc = "filtered" /\ filter.count = 2
  /\ filter.before[1] = <<[mz |-> 2, intensity |-> 2], [mz |-> 1, intensity |-> 1],
                          [mz |-> 1, intensity |-> 2]>>
  /\ filter.map[1] = <<[mz |-> 1, intensity |-> 2], [mz |-> 2, intensity |-> 2]>>

\* ------------------------------------- PrecalculatedAveragine: the extents
\* getLastIndex(mass) for the template b: apex_index_[index] + right_count_from_apex_[index]
getLastIndex(b) == b.apex_index + b.right_count_from_apex

\* C26: the extents stored for a template lie inside the template: the apex
\* index minus the left extent is at least 0, and the apex index plus the right
\* extent (getLastIndex) is at most the index of the last isotope stored.
C26_ExtentsInsideTemplate ==
  tmpl.pc = "built" =>
    /\ tmpl.built.apex_index - tmpl.built.left_count_from_apex >= 0
    /\ getLastIndex(tmpl.built) <= Len(tmpl.built.isotopes) - 1

\* --------------------- PrecalculatedAveragine: the constructor, step by step
\* the test of the grid loop taken one grid mass too far
NotAboveMin(mass, min_mass) == mass <= min_mass

\* if (mass < min_mass) continue;
BelowMin(mass, min_mass) == mass < min_mass

\* if (mass > max_mass) break;
AboveMax(mass, max_mass) == mass > max_mass

\* the per-template vectors of the table
TemplateVectors ==
  {"apex_index_", "right_count_from_apex_", "left_count_from_apex_",
   "average_mono_mass_difference_", "abundant_mono_mass_difference_", "isotopes_"}

InitConstructor ==
  /\ MainUnused
  /\ tmpl = Unused /\ peak = Unused /\ tracer = Unused /\ MoreUnused
  /\ \E min_mass \in 0..2, max_mass \in 0..MaxGridMass, delta \in 1..2 :
       averagine = [pc |-> "ctor", i |-> 0, min_mass_ |-> min_mass, max_mass |-> max_mass,
                    mass_interval_ |-> delta, vectors |-> [v \in TemplateVectors |-> <<>>]]

\* double mass = i * mass_interval_; i++; if (mass < min_mass) continue;
GridSkip ==
  /\ averagine.pc = "ctor"
  /\ BelowMin(averagine.i * averagine.mass_interval_, averagine.min_mass_)
  /\ averagine' = [averagine EXCEPT !.i = @ + 1]
  /\ UNCHANGED <<vars, tmpl, peak, tracer, moreVars>>

\* if (mass > max_mass) break;
GridBreak ==
  /\ averagine.pc = "ctor"
  /\ ~BelowMin(averagine.i * averagine.mass_interval_, averagine.min_mass_)
  /\ AboveMax(averagine.i * averagine.mass_interval_, averagine.max_mass)
  /\ averagine' = [averagine EXCEPT !.pc = "constructed", !.i = @ + 1]
  /\ UNCHANGED <<vars, tmpl, peak, tracer, moreVars>>

\* the rest of the loop body: the template of the grid mass (named by the mass
\* here) is appended to every vector
GridPush ==
  /\ averagine.pc = "ctor"
  /\ ~BelowMin(averagine.i * averagine.mass_interval_, averagine.min_mass_)
  /\ ~AboveMax(averagine.i * averagine.mass_interval_, averagine.max_mass)
  /\ averagine' = [averagine EXCEPT
                     !.i = @ + 1,
                     !.vectors = [v \in TemplateVectors |->
                                    Append(@[v], averagine.i * averagine.mass_interval_)]]
  /\ UNCHANGED <<vars, tmpl, peak, tracer, moreVars>>

NextConstructor == GridSkip \/ GridBreak \/ GridPush

\* the constructor runs on: a loop iteration that can be taken is taken
SpecConstructor ==
  InitConstructor /\ [][NextConstructor]_allVars /\ WF_allVars(NextConstructor)

\* the multiples of the mass step within [min_mass, max_mass]
GridMasses ==
  {m \in 0..MaxGridMass :
     /\ m % averagine.mass_interval_ = 0
     /\ averagine.min_mass_ <= m /\ m <= averagine.max_mass}

\* the table holds one template per grid mass, in increasing order, in every vector
TableComplete ==
  /\ \A v \in TemplateVectors : averagine.vectors[v] = averagine.vectors["isotopes_"]
  /\ averagine.vectors["isotopes_"] = SetToSeq(GridMasses)

MaxLayers == 3         \* layers the stack holds at most

\* Size, an unsigned integer: its width is cut down to eight bits here
SizeModulus == 256

\* LayerDataDefs::DataType: DT_PEAK = 0 ... DT_UNKNOWN = 5
DataType == 0..5

\* the new layer put at the front whatever its type
FrontPosition(layers, type) == 0

\* std::find_if over the reversed layers for l->type <= new_layer->type, then
\* it.base(): the 0-based position behind the last such layer, 0 if there is none
InsertPosition(layers, type) ==
  LET hits == {k \in DOMAIN layers : layers[k] <= type}
  IN IF hits = {} THEN 0 ELSE CHOOSE k \in hits : \A j \in hits : j <= k

\* layers_.insert(where, new_layer), where 0-based
InsertAt(layers, where, type) ==
  SubSeq(layers, 1, where) \o <<type>> \o SubSeq(layers, where + 1, Len(layers))

\* layers_.erase(layers_.begin() + layer_index)
EraseAt(layers, layer_index) ==
  SubSeq(layers, 1, layer_index) \o SubSeq(layers, layer_index + 2, Len(layers))

\* the current layer index left as it is after a removal
KeepCurrent(current, count) == current

\* if (current_layer_ >= getLayerCount()) current_layer_ = getLayerCount() - 1;
ClampCurrent(current, count) ==
  IF current >= count THEN (count - 1) % SizeModulus ELSE current

\* the state of the stack after removeLayer(layer_index), and whether it threw
removeLayer(s, layer_index) ==
  IF layer_index >= Len(s.layers_)
  THEN [s EXCEPT !.threw = TRUE, !.before = s.layers_, !.op = "removeLayer", !.arg = layer_index]
  ELSE LET erased == EraseAt(s.layers_, layer_index)
       IN [s EXCEPT !.layers_ = erased,
                    !.current_layer_ = ClampCurrent(@, Len(erased)),
                    !.threw = FALSE, !.before = s.layers_, !.op = "removeLayer",
                    !.arg = layer_index]

\* a layer is a value of its type; current_layer_ before the first call is any
\* of the two values a constructor would leave
InitStack ==
  /\ MainUnused
  /\ averagine = Unused /\ tmpl = Unused /\ peak = Unused /\ tracer = Unused
  /\ detection = Unused /\ filter = Unused /\ zoom = Unused
  /\ \E c \in {0, SizeModulus - 1} :
       stack = [layers_ |-> <<>>, current_layer_ |-> c, op |-> "none", arg |-> 0,
                before |-> <<>>, threw |-> FALSE]

\* LayerStack::addLayer(new_layer)
AddLayer ==
  /\ Len(stack.layers_) < MaxLayers
  /\ \E type \in DataType :
       LET where == InsertPosition(stack.layers_, type)
       IN stack' = [stack EXCEPT !.layers_ = InsertAt(@, where, type),
                                 !.current_layer_ = where,
                                 !.op = "addLayer", !.arg = type, !.before = stack.layers_,
                                 !.threw = FALSE]
  /\ UNCHANGED <<vars, averagine, tmpl, peak, tracer, detection, filter, zoom>>

\* LayerStack::removeLayer(layer_index)
RemoveLayer ==
  /\ \E layer_index \in 0..MaxLayers : stack' = removeLayer(stack, layer_index)
  /\ UNCHANGED <<vars, averagine, tmpl, peak, tracer, detection, filter, zoom>>

\* LayerStack::removeCurrentLayer()
RemoveCurrentLayer ==
  /\ stack' = [removeLayer(stack, stack.current_layer_) EXCEPT !.op = "removeCurrentLayer"]
  /\ UNCHANGED <<vars, averagine, tmpl, peak, tracer, detection, filter, zoom>>

\* LayerStack::setCurrentLayer(index)
SetCurrentLayer ==
  /\ \E index \in 0..MaxLayers :
       stack' = IF index >= Len(stack.layers_)
                THEN [stack EXCEPT !.threw = TRUE, !.op = "setCurrentLayer", !.arg = index,
                                   !.before = stack.layers_]
                ELSE [stack EXCEPT !.current_layer_ = index, !.threw = FALSE,
                                   !.op = "setCurrentLayer", !.arg = index,
                                   !.before = stack.layers_]
  /\ UNCHANGED <<vars, averagine, tmpl, peak, tracer, detection, filter, zoom>>

\* LayerStack::getCurrentLayer()
GetCurrentLayer ==
  /\ stack' = [stack EXCEPT !.threw = stack.current_layer_ >= Len(stack.layers_),
                            !.op = "getCurrentLayer", !.arg = stack.current_layer_,
                            !.before = stack.layers_]
  /\ UNCHANGED <<vars, averagine, tmpl, peak, tracer, detection, filter, zoom>>

NextStack == AddLayer \/ RemoveLayer \/ RemoveCurrentLayer \/ SetCurrentLayer \/ GetCurrentLayer

SpecStack == InitStack /\ [][NextStack]_allVars

\* C28: each new layer is inserted directly after the last layer whose type is
\* less than or equal to its own (at the front when there is none), so the
\* stack stays sorted by data type, and the current layer index designates the
\* layer just added.
C28_AddLayerKeepsStackSorted ==
  /\ \A k \in 1..(Len(stack.layers_) - 1) : stack.layers_[k] <= stack.layers_[k + 1]
  /\ stack.op = "addLayer" =>
       LET at == stack.current_layer_ + 1
       IN /\ at \in DOMAIN stack.layers_
          /\ stack.layers_[at] = stack.arg
          /\ stack.before = EraseAt(stack.layers_, stack.current_layer_)
          /\ \A k \in 1..(at - 1) : stack.layers_[k] <= stack.arg
          /\ \A k \in (at + 1)..Len(stack.layers_) : stack.layers_[k] > stack.arg

\* a layer added between a layer of its own type and a layer of a later type
C28_Witness ==
  stack.op = "addLayer" /\ stack.before = <<1, 3>> /\ stack.arg = 1 /\ stack.layers_ = <<1, 1, 3>>
    /\ stack.current_layer_ = 1

\* C29: the current layer index is below the layer count whenever the stack is
\* non-empty, so getCurrentLayer throws IndexOverflow exactly when the stack is empty.
C29_CurrentLayerValid ==
  /\ stack.layers_ # <<>> => stack.current_layer_ < Len(stack.layers_)
  /\ stack.op = "getCurrentLayer" => (stack.threw <=> stack.layers_ = <<>>)

\* the last of two layers removed while it is the current one
C29_Witness ==
  /\ stack.op = "removeCurrentLayer" /\ ~stack.threw /\ stack.arg = 1
  /\ Len(stack.before) = 2 /\ stack.current_layer_ = 0

\* ------------------------------------------- PlotCanvas: the zoom stack
MaxZoom == 3           \* entries the zoom stack holds at most

\* the visible areas told apart
Areas == 1..2

\* zoom_pos_ is kept as the 0-based offset from zoom_stack_.begin();
\* zoom_stack_.end() is the offset Len(zoom_stack_)
End(z) == Len(z.zoom_stack_)

\* the stack with no entry erased
EraseNothing(zoom_stack, pos) == zoom_stack

\* zoom_stack_.erase(zoom_pos_ + 1, zoom_stack_.end())
EraseAfter(zoom_stack, pos) == SubSeq(zoom_stack, 1, pos + 1)

\* PlotCanvas::zoomAdd_(area)
zoomAdd_(z, area) ==
  LET kept == IF z.zoom_pos_ # End(z) /\ z.zoom_pos_ + 1 # End(z)
              THEN EraseAfter(z.zoom_stack_, z.zoom_pos_) ELSE z.zoom_stack_
      pushed == Append(kept, area)
  IN [z EXCEPT !.zoom_stack_ = pushed, !.zoom_pos_ = Len(pushed) - 1]

\* PlotCanvas::changeVisibleArea_(new_area, repaint, add_to_stack)
changeVisibleArea_(z, new_area, add_to_stack) ==
  LET z1 == IF add_to_stack /\ z.zoom_stack_ # <<>>
                 /\ z.zoom_stack_[Len(z.zoom_stack_)] # z.visible_area_
            THEN zoomAdd_(z, z.visible_area_) ELSE z
      z2 == IF add_to_stack THEN zoomAdd_(z1, new_area) ELSE z1
  IN [z2 EXCEPT !.visible_area_ = new_area]

\* PlotCanvas::zoomBack_(); add_to_stack is the default argument of changeVisibleArea_
zoomBack_(z, add_to_stack) ==
  IF z.zoom_pos_ # 0
  THEN LET z1 == [z EXCEPT !.zoom_pos_ = @ - 1]
       IN changeVisibleArea_(z1, z1.zoom_stack_[z1.zoom_pos_ + 1], add_to_stack)
  ELSE z

\* PlotCanvas::zoomForward_(); extended is the area new_area.setArea(xy.extend(0.8))
zoomForward_(z, extended, add_to_stack) ==
  LET z1 == IF z.zoom_pos_ = End(z) \/ z.zoom_pos_ + 1 = End(z)
            THEN LET a == zoomAdd_(z, extended) IN [a EXCEPT !.zoom_pos_ = End(a) - 1]
            ELSE [z EXCEPT !.zoom_pos_ = @ + 1]
  IN changeVisibleArea_(z1, z1.zoom_stack_[z1.zoom_pos_ + 1], add_to_stack)

\* PlotCanvas::zoomClear_()
zoomClear_(z) == [z EXCEPT !.zoom_stack_ = <<>>, !.zoom_pos_ = 0]

\* the default of add_to_stack is declared with the class: either value
AddToStackDefaults == BOOLEAN

\* the state z after the call op, with the state before for reference
After(z, op, arg) ==
  [z EXCEPT !.op = op, !.arg = arg, !.before = zoom.zoom_stack_, !.before_pos = zoom.zoom_pos_]

\* a canvas with an empty zoom stack
InitZoom ==
  /\ MainUnused
  /\ averagine = Unused /\ tmpl = Unused /\ peak = Unused /\ tracer = Unused
  /\ detection = Unused /\ filter = Unused /\ stack = Unused
  /\ \E a \in Areas :
       zoom = [zoom_stack_ |-> <<>>, zoom_pos_ |-> 0, visible_area_ |-> a,
               op |-> "none", arg |-> 0, before |-> <<>>, before_pos |-> 0]

ZoomAdd ==
  /\ \E area \in Areas :
       LET z == zoomAdd_(zoom, area)
       IN Len(z.zoom_stack_) <= MaxZoom /\ zoom' = After(z, "zoomAdd_", area)
  /\ UNCHANGED <<vars, averagine, tmpl, peak, tracer, detection, filter, stack>>

ZoomBack ==
  /\ \E d \in AddToStackDefaults :
       LET z == zoomBack_(zoom, d)
       IN Len(z.zoom_stack_) <= MaxZoom /\ zoom' = After(z, "zoomBack_", 0)
  /\ UNCHANGED <<vars, averagine, tmpl, peak, tracer, detection, filter, stack>>

ZoomForward ==
  /\ \E extended \in Areas, d \in AddToStackDefaults :
       LET z == zoomForward_(zoom, extended, d)
       IN Len(z.zoom_stack_) <= MaxZoom /\ zoom' = After(z, "zoomForward_", extended)
  /\ UNCHANGED <<vars, averagine, tmpl, peak, tracer, detection, filter, stack>>

ZoomClear ==
  /\ zoom' = After(zoomClear_(zoom), "zoomClear_", 0)
  /\ UNCHANGED <<vars, averagine, tmpl, peak, tracer, detection, filter, stack>>

NextZoom == ZoomAdd \/ ZoomBack \/ ZoomForward \/ ZoomClear

SpecZoom == InitZoom /\ [][NextZoom]_allVars

\* C30: zoom_pos_ equals end() exactly when the zoom stack is empty and
\* otherwise points at an element of the stack; zoomAdd_ discards every entry
\* after the current position and leaves the position at the newly added last entry.
C30_ZoomPositionValid ==
  /\ zoom.zoom_pos_ = End(zoom) <=> zoom.zoom_stack_ = <<>>
  /\ zoom.zoom_stack_ # <<>> => zoom.zoom_pos_ \in 0..(End(zoom) - 1)
  /\ zoom.op = "zoomAdd_" =>
       /\ zoom.zoom_stack_ =
            Append(SubSeq(zoom.before, 1, Min(zoom.before_pos + 1, Len(zoom.before))), zoom.arg)
       /\ zoom.zoom_pos_ = End(zoom) - 1

\* an area added while the position is at the first of three entries
C30_Witness ==
  /\ zoom.op = "zoomAdd_" /\ Len(zoom.before) = 3 /\ zoom.before_pos = 0
  /\ Len(zoom.zoom_stack_) = 2 /\ zoom.zoom_pos_ = 1

====
